---- MODULE Spec2Model ----
(***************************************************************************)
(* The ldoc launcher (OneLuaPro/ldoc).                                     *)
(*                                                                         *)
(* Two build variants of main are modelled side by side:                   *)
(*   "file"     src/ldoc.cpp           payload is <prefix>\bin\ldoc.lua    *)
(*   "embedded" src/unnamed/part_001   payload is ldoc_source_bytes[]      *)
(* together with the Lua routine setPaths both variants carry and the      *)
(* build step of src/unnamed/part_000 that produces ldoc_source_bytes.     *)
(*                                                                         *)
(* A string is a sequence of one-character strings.                        *)
(***************************************************************************)
EXTENDS Integers, Sequences, FiniteSets, TLC

VARIABLES
  variant,        \* which main is compiled: "file" or "embedded"
  argv,           \* the process's argument vector (argc = Len(argv))
  pc,             \* position in main
  i,              \* the loop counter of main's for loops
  installPrefix,  \* WCHAR installPrefix[]
  utf8Prefix,     \* std::string utf8Prefix
  L,              \* the lua_State: "none", "open" or "closed"
  argTable,       \* the table under construction for the global arg
  globalArg,      \* the Lua global arg ("nil" until lua_setglobal)
  setPathsDefined,\* whether the Lua global setPaths is a function
  pathsTable,     \* 2nd argument of setPaths
  cpathsTable,    \* 3rd argument of setPaths
  packagePath,    \* package.path ("default" until setPaths assigns it)
  packageCpath,   \* package.cpath
  scriptPath,     \* std::string scriptPath (file variant only)
  bridgeRc,       \* result of lua_pcall(L, 3, 0, 0): "none", "ok", "err"
  loadRc,         \* result of loading the payload: "none", "ok", "err"
  runRc,          \* result of running the payload: "none", "ok", "err"
  stderr,         \* the diagnostics written, in order
  exitCode,       \* main's return value (-1 while running)
  trace,          \* the API calls made, in order
  CONTENT,        \* convert_lua_to_hex.cmake: the text read from INPUT_FILE
  policy,         \* convert_lua_to_hex.cmake: CMP0186 setting of the cmake run
  CLEAN_CONTENT,  \* convert_lua_to_hex.cmake
  RAW_HEX,        \* convert_lua_to_hex.cmake
  FORMATTED_HEX,  \* convert_lua_to_hex.cmake
  ldoc_source_bytes, \* generated header: the array, terminator included
  ldoc_source_size,  \* generated header: sizeof(ldoc_source_bytes) - 1
  cpc             \* position in convert_lua_to_hex.cmake

mainVars ==
  <<variant, argv, pc, i, installPrefix, utf8Prefix, L, argTable,
    globalArg, setPathsDefined, pathsTable, cpathsTable, packagePath,
    packageCpath, scriptPath, bridgeRc, loadRc, runRc, stderr, exitCode,
    trace>>

convVars ==
  <<CONTENT, policy, CLEAN_CONTENT, RAW_HEX, FORMATTED_HEX,
    ldoc_source_bytes, ldoc_source_size, cpc>>

vars ==
  <<mainVars, convVars>>

(***************************************************************************)
(* Bounds of the model.                                                    *)
(***************************************************************************)
MaxArgs ==
  2

MaxRootLen ==
  3

MaxTemplateLen ==
  3

MaxPaths ==
  3

MaxCpaths ==
  2

MaxContentLen ==
  5

(***************************************************************************)
(* Strings.                                                                *)
(***************************************************************************)
BSL ==
  "\\"

NULL ==
  0

RECURSIVE StringsUpTo(_, _)
StringsUpTo(alphabet, n) ==
  IF n = 0 THEN {<<>>}
  ELSE LET shorter == StringsUpTo(alphabet, n - 1)
       IN  shorter \cup {Append(s, c) : s \in shorter, c \in alphabet}

RECURSIVE ListsUpTo(_, _)
ListsUpTo(elems, n) ==
  IF n = 0 THEN {<<>>}
  ELSE LET shorter == ListsUpTo(elems, n - 1)
       IN  shorter \cup {Append(s, e) : s \in shorter, e \in elems}

(***************************************************************************)
(* The Lua routine setPaths (the string main hands to luaL_dostring).      *)
(* Its two patterns are "\\+$" and "^\\+": one or more backslashes,        *)
(* anchored at the end or at the start of the subject.  gsub is computed   *)
(* the way Lua's string.gsub computes it: a matching attempt at every      *)
(* position from left to right, the "+" item greedy with backtracking.     *)
(***************************************************************************)

\* The number of consecutive backslashes of s from position k on.
RECURSIVE CountRun(_, _)
CountRun(s, k) ==
  IF k <= Len(s) /\ s[k] = BSL THEN 1 + CountRun(s, k + 1) ELSE 0

\* What follows the "\\+" item of the pattern: "$" (the subject must end
\* here) or nothing.
MatchRest(s, pos, anchorEnd) ==
  anchorEnd => pos = Len(s) + 1

\* The greedy item: try the longest run first, then give back one
\* character at a time.  Returns the position after the match, or NULL.
RECURSIVE MaxExpand(_, _, _, _)
MaxExpand(s, base, n, anchorEnd) ==
  IF n < 0 THEN NULL
  ELSE IF MatchRest(s, base + n, anchorEnd) THEN base + n
  ELSE MaxExpand(s, base, n - 1, anchorEnd)

\* One matching attempt of "\\+" (then "$" when anchorEnd) at position src.
Match(s, src, anchorEnd) ==
  IF src <= Len(s) /\ s[src] = BSL
    THEN MaxExpand(s, src + 1, CountRun(s, src + 1), anchorEnd)
    ELSE NULL

\* gsub's loop with the empty replacement; out is the buffer built so far.
RECURSIVE GsubLoop(_, _, _, _, _, _)
GsubLoop(s, src, lastmatch, out, anchorStart, anchorEnd) ==
  LET e == Match(s, src, anchorEnd)
      matched == e # NULL /\ e # lastmatch
      src1 == IF matched THEN e ELSE src + 1
      last1 == IF matched THEN e ELSE lastmatch
      out1 == IF matched THEN out ELSE Append(out, s[src])
  IN  IF ~matched /\ src > Len(s)
        THEN out
        ELSE IF anchorStart
          THEN out1 \o SubSeq(s, src1, Len(s))
          ELSE GsubLoop(s, src1, last1, out1, anchorStart, anchorEnd)

\* s:gsub("\\+$", "")
GsubTrailing(s) ==
  GsubLoop(s, 1, NULL, <<>>, FALSE, TRUE)

\* Mutant of GsubLeading: the pattern "^\\" without "+", which removes one
\* leading backslash only.
MutGsubLeading(s) ==
  IF Len(s) > 0 /\ s[1] = BSL THEN SubSeq(s, 2, Len(s)) ELSE s

\* s:gsub("^\\+", "")
GsubLeading(s) ==
  GsubLoop(s, 1, NULL, <<>>, TRUE, FALSE)

\* cleanBasePath.."\\"..((v:gsub("^\\+", "")):gsub("\\+$", ""))
FullPath(cleanBasePath, v) ==
  cleanBasePath \o <<BSL>> \o GsubTrailing(GsubLeading(v))

\* The loop "for _,v in ipairs(list) do table.insert(full, ...) end".
RECURSIVE InsertAll(_, _, _, _)
InsertAll(cleanBasePath, list, k, full) ==
  IF k > Len(list) THEN full
  ELSE InsertAll(cleanBasePath, list, k + 1,
                 Append(full, FullPath(cleanBasePath, list[k])))

\* Mutant of TableConcat: the separator follows every element, the last too.
RECURSIVE MutTableConcat(_, _, _, _)
MutTableConcat(list, sep, k, buf) ==
  IF k <= Len(list)
    THEN MutTableConcat(list, sep, k + 1, buf \o list[k] \o sep)
    ELSE buf

\* table.concat(list, sep): every element but the last is followed by sep.
RECURSIVE TableConcat(_, _, _, _)
TableConcat(list, sep, k, buf) ==
  IF k < Len(list)
    THEN TableConcat(list, sep, k + 1, buf \o list[k] \o sep)
    ELSE IF k = Len(list) THEN buf \o list[k] ELSE buf

\* package.path = table.concat(fullPaths, ";")
SearchPath(basePath, list) ==
  TableConcat(InsertAll(GsubTrailing(basePath), list, 1, <<>>), <<";">>, 1, <<>>)

\* function setPaths(basePath, paths, cpaths): the two assignments.
SetPathsResult(basePath, paths, cpaths) ==
  [path |-> SearchPath(basePath, paths), cpath |-> SearchPath(basePath, cpaths)]

(***************************************************************************)
(* The launcher's fixed template lists.                                    *)
(***************************************************************************)
W_bin ==
  <<"b", "i", "n">>

W_lua ==
  <<"l", "u", "a">>

W_lib ==
  <<"l", "i", "b">>

W_share ==
  <<"s", "h", "a", "r", "e">>

W_q_lua ==
  <<"?", ".", "l", "u", "a">>

W_q_dll ==
  <<"?", ".", "d", "l", "l">>

W_init_lua ==
  <<"i", "n", "i", "t", ".", "l", "u", "a">>

W_loadall_dll ==
  <<"l", "o", "a", "d", "a", "l", "l", ".", "d", "l", "l">>

W_ldoc_lua ==
  <<"l", "d", "o", "c", ".", "l", "u", "a">>

W_ldoc_exe ==
  <<"l", "d", "o", "c", ".", "e", "x", "e">>

\* LUA_VERSION_MAJOR "." LUA_VERSION_MINOR of the Lua headers built against.
LUA_VERSION ==
  <<"5", ".", "4">>

LUA_PATHS ==
  << W_bin \o <<BSL>> \o W_lua \o <<BSL>> \o W_q_lua,
     W_bin \o <<BSL>> \o W_lua \o <<BSL, "?", BSL>> \o W_init_lua,
     W_bin \o <<BSL>> \o W_q_lua,
     W_bin \o <<BSL, "?", BSL>> \o W_init_lua,
     W_share \o <<BSL>> \o W_lua \o <<BSL>> \o LUA_VERSION \o <<BSL>> \o W_q_lua,
     W_share \o <<BSL>> \o W_lua \o <<BSL>> \o LUA_VERSION \o <<BSL, "?", BSL>> \o W_init_lua,
     <<".", BSL>> \o W_q_lua,
     <<".", BSL, "?", BSL>> \o W_init_lua >>

LUA_CPATHS ==
  << W_bin \o <<BSL>> \o W_q_dll,
     W_lib \o <<BSL>> \o W_lua \o <<BSL>> \o LUA_VERSION \o <<BSL>> \o W_q_dll,
     W_bin \o <<BSL>> \o W_loadall_dll,
     <<".", BSL>> \o W_q_dll >>

(***************************************************************************)
(* main: the Windows calls it makes.                                       *)
(***************************************************************************)

\* Position of the last backslash of p (0 when it has none).
RECURSIVE LastBackslash(_, _)
LastBackslash(p, k) ==
  IF k = 0 THEN 0 ELSE IF p[k] = BSL THEN k ELSE LastBackslash(p, k - 1)

\* Length of the root "X:\" of a fully qualified drive path.
RootLen(p) ==
  IF Len(p) >= 3 /\ p[2] = ":" /\ p[3] = BSL THEN 3 ELSE 0

\* PathCchRemoveFileSpec: drops the last element and the backslash before
\* it; the root keeps its backslash and is never shortened.
RemoveFileSpec(p) ==
  LET k == LastBackslash(p, Len(p))
  IN  IF k <= RootLen(p) THEN SubSeq(p, 1, RootLen(p)) ELSE SubSeq(p, 1, k - 1)

\* The UTF-8 bytes of one UTF-16 code unit of the paths used here.
Utf8Of(c) ==
  IF c = "U+00E9" THEN <<"0xC3", "0xA9">> ELSE <<c>>

RECURSIVE Utf8Bytes(_, _)
Utf8Bytes(text, k) ==
  IF k > Len(text) THEN <<>> ELSE Utf8Of(text[k]) \o Utf8Bytes(text, k + 1)

\* WideCharToUTF8: the empty string when WideCharToMultiByte reports no size.
WideCharToUTF8(text, sizeOk) ==
  IF sizeOk THEN Utf8Bytes(text, 1) ELSE <<>>

\* What GetModuleFileNameW can report for the running executable.
ExePaths ==
  { <<"C", ":", BSL, "p", BSL>> \o W_bin \o <<BSL>> \o W_ldoc_exe,
    <<"C", ":", BSL, "U+00E9", BSL>> \o W_bin \o <<BSL>> \o W_ldoc_exe,
    <<"C", ":", BSL>> \o W_bin \o <<BSL>> \o W_ldoc_exe,
    <<"C", ":", BSL>> \o W_ldoc_exe }

ArgWords ==
  {"a", "b"}

\* argv[0] is the program name; at most MaxArgs arguments follow.
ArgVectors ==
  { <<"ldoc.exe">> \o rest : rest \in ListsUpTo(ArgWords, MaxArgs) }

argc ==
  Len(argv)

(***************************************************************************)
(* main: what differs between the two variants.                            *)
(***************************************************************************)

\* The text after "ldoc.exe: " of the diagnostic for a payload that did
\* not compile.
LoadDiag(v) ==
  IF v = "file" THEN "Error: " ELSE "Syntax error in embedded code: "

\* The text after "ldoc.exe: " of the diagnostic for a payload that raised
\* an error.
RunDiag(v) ==
  IF v = "file" THEN "Error: " ELSE "Runtime error: "

\* The call that compiles the payload.
LoadCall(v) ==
  IF v = "file" THEN "luaL_loadfile" ELSE "luaL_loadbuffer"

\* Mutant of ExitStatus: a failed setPaths call counts as a failure of main.
MutExitStatus(v, load, run) ==
  IF bridgeRc = "err" \/ (v = "file" /\ (load = "err" \/ run = "err")) THEN 1 ELSE 0

\* main's return value once the payload was attempted.
ExitStatus(v, load, run) ==
  IF v = "file"
    THEN IF load = "err" \/ run = "err" THEN 1 ELSE 0
    ELSE 0

Say(msg) ==
  stderr' = Append(stderr, msg)

Call(name) ==
  trace' = Append(trace, name)

Calls(names) ==
  trace' = trace \o names

(***************************************************************************)
(* main, statement by statement.                                           *)
(***************************************************************************)
InitMain ==
  /\ variant \in {"file", "embedded"}
  /\ argv \in ArgVectors
  /\ pc = "GetModuleFileNameW"
  /\ i = 0
  /\ installPrefix = <<>>
  /\ utf8Prefix = <<>>
  /\ L = "none"
  /\ argTable = <<>>
  /\ globalArg = <<"nil">>
  /\ setPathsDefined = FALSE
  /\ pathsTable = <<>>
  /\ cpathsTable = <<>>
  /\ packagePath = <<"default">>
  /\ packageCpath = <<"default">>
  /\ scriptPath = <<>>
  /\ bridgeRc = "none"
  /\ loadRc = "none"
  /\ runRc = "none"
  /\ stderr = <<>>
  /\ exitCode = -1
  /\ trace = <<>>

ConvIdle ==
  /\ CONTENT = <<>>
  /\ policy = "NEW"
  /\ CLEAN_CONTENT = <<>>
  /\ RAW_HEX = <<>>
  /\ FORMATTED_HEX = <<>>
  /\ ldoc_source_bytes = <<>>
  /\ ldoc_source_size = 0
  /\ cpc = "idle"

\* Mutant of ResolveExecutable: the failure branch lacks its return.
MutResolveExecutable ==
  /\ pc = "GetModuleFileNameW"
  /\ Call("GetModuleFileNameW")
  /\ \E ok \in BOOLEAN :
       IF ok
         THEN /\ \E p \in ExePaths : installPrefix' = p
              /\ UNCHANGED stderr
         ELSE /\ Say("Could not find executable path.")
              /\ UNCHANGED installPrefix
  /\ pc' = "PathCchRemoveFileSpec"
  /\ UNCHANGED <<variant, argv, i, utf8Prefix, L, argTable, globalArg,
                 setPathsDefined, pathsTable, cpathsTable, packagePath,
                 packageCpath, scriptPath, bridgeRc, loadRc, runRc, exitCode>>
  /\ UNCHANGED convVars

\* if (!GetModuleFileNameW(...)) { fprintf; return 1; }
ResolveExecutable ==
  /\ pc = "GetModuleFileNameW"
  /\ Call("GetModuleFileNameW")
  /\ \E ok \in BOOLEAN :
       IF ok
         THEN /\ \E p \in ExePaths : installPrefix' = p
              /\ pc' = "PathCchRemoveFileSpec"
              /\ UNCHANGED <<stderr, exitCode>>
         ELSE /\ Say("Could not find executable path.")
              /\ exitCode' = 1
              /\ pc' = "done"
              /\ UNCHANGED installPrefix
  /\ UNCHANGED <<variant, argv, i, utf8Prefix, L, argTable, globalArg,
                 setPathsDefined, pathsTable, cpathsTable, packagePath,
                 packageCpath, scriptPath, bridgeRc, loadRc, runRc>>
  /\ UNCHANGED convVars

\* PathCchRemoveFileSpec twice, then utf8Prefix = WideCharToUTF8(installPrefix)
DeriveInstallPrefix ==
  /\ pc = "PathCchRemoveFileSpec"
  /\ Call("PathCchRemoveFileSpec")
  /\ installPrefix' = RemoveFileSpec(RemoveFileSpec(installPrefix))
  /\ \E sizeOk \in BOOLEAN : utf8Prefix' = WideCharToUTF8(installPrefix', sizeOk)
  /\ pc' = "luaL_newstate"
  /\ UNCHANGED <<variant, argv, i, L, argTable, globalArg, setPathsDefined,
                 pathsTable, cpathsTable, packagePath, packageCpath,
                 scriptPath, bridgeRc, loadRc, runRc, stderr, exitCode>>
  /\ UNCHANGED convVars

\* lua_State *L = luaL_newstate(); if (!L) { fprintf; return 1; }
NewState ==
  /\ pc = "luaL_newstate"
  /\ Call("luaL_newstate")
  /\ \E ok \in BOOLEAN :
       IF ok
         THEN /\ L' = "open"
              /\ pc' = "luaL_openlibs"
              /\ UNCHANGED <<stderr, exitCode>>
         ELSE /\ Say("Failed to create Lua state.")
              /\ exitCode' = 1
              /\ pc' = "done"
              /\ UNCHANGED L
  /\ UNCHANGED <<variant, argv, i, installPrefix, utf8Prefix, argTable,
                 globalArg, setPathsDefined, pathsTable, cpathsTable,
                 packagePath, packageCpath, scriptPath, bridgeRc, loadRc,
                 runRc>>
  /\ UNCHANGED convVars

\* luaL_openlibs(L); lua_newtable(L); and the loop's i = 0
OpenLibs ==
  /\ pc = "luaL_openlibs"
  /\ Call("luaL_openlibs")
  /\ argTable' = <<>>
  /\ i' = 0
  /\ pc' = "arg"
  /\ UNCHANGED <<variant, argv, installPrefix, utf8Prefix, L, globalArg,
                 setPathsDefined, pathsTable, cpathsTable, packagePath,
                 packageCpath, scriptPath, bridgeRc, loadRc, runRc, stderr,
                 exitCode>>
  /\ UNCHANGED convVars

\* Mutant of PushArg: lua_rawseti(L, -2, i + 1), as in the two other loops.
MutPushArg ==
  /\ pc = "arg"
  /\ i < argc
  /\ argTable' = (i + 1 :> argv[i + 1]) @@ argTable
  /\ i' = i + 1
  /\ UNCHANGED <<variant, argv, pc, installPrefix, utf8Prefix, L, globalArg,
                 setPathsDefined, pathsTable, cpathsTable, packagePath,
                 packageCpath, scriptPath, bridgeRc, loadRc, runRc, stderr,
                 exitCode, trace>>
  /\ UNCHANGED convVars

\* One turn of: for (i = 0; i < argc; i++) { lua_pushstring(L, argv[i]);
\* lua_rawseti(L, -2, i); }   (argv[i] of the code is argv[i + 1] here)
PushArg ==
  /\ pc = "arg"
  /\ i < argc
  /\ argTable' = (i :> argv[i + 1]) @@ argTable
  /\ i' = i + 1
  /\ UNCHANGED <<variant, argv, pc, installPrefix, utf8Prefix, L, globalArg,
                 setPathsDefined, pathsTable, cpathsTable, packagePath,
                 packageCpath, scriptPath, bridgeRc, loadRc, runRc, stderr,
                 exitCode, trace>>
  /\ UNCHANGED convVars

\* lua_setglobal(L, "arg")
SetGlobalArg ==
  /\ pc = "arg"
  /\ ~(i < argc)
  /\ Call("lua_setglobal arg")
  /\ globalArg' = argTable
  /\ pc' = "luaL_dostring"
  /\ UNCHANGED <<variant, argv, i, installPrefix, utf8Prefix, L, argTable,
                 setPathsDefined, pathsTable, cpathsTable, packagePath,
                 packageCpath, scriptPath, bridgeRc, loadRc, runRc, stderr,
                 exitCode>>
  /\ UNCHANGED convVars

\* luaL_dostring(L, setPaths), its result ignored; lua_getglobal;
\* lua_pushstring(L, utf8Prefix.c_str()); lua_newtable(L); and i = 0
DefineSetPaths ==
  /\ pc = "luaL_dostring"
  /\ Call("luaL_dostring setPaths")
  /\ \E ok \in BOOLEAN : setPathsDefined' = ok
  /\ pathsTable' = <<>>
  /\ i' = 0
  /\ pc' = "paths"
  /\ UNCHANGED <<variant, argv, installPrefix, utf8Prefix, L, argTable,
                 globalArg, cpathsTable, packagePath, packageCpath,
                 scriptPath, bridgeRc, loadRc, runRc, stderr, exitCode>>
  /\ UNCHANGED convVars

\* One turn of: for (i = 0; LUA_PATHS[i] != NULL; ++i) { lua_pushstring;
\* lua_rawseti(L, -2, i + 1); }
PushPath ==
  /\ pc = "paths"
  /\ i < Len(LUA_PATHS)
  /\ pathsTable' = (i + 1 :> LUA_PATHS[i + 1]) @@ pathsTable
  /\ i' = i + 1
  /\ UNCHANGED <<variant, argv, pc, installPrefix, utf8Prefix, L, argTable,
                 globalArg, setPathsDefined, cpathsTable, packagePath,
                 packageCpath, scriptPath, bridgeRc, loadRc, runRc, stderr,
                 exitCode, trace>>
  /\ UNCHANGED convVars

\* The loop over LUA_PATHS ends; lua_newtable(L) for the third argument
EndPaths ==
  /\ pc = "paths"
  /\ ~(i < Len(LUA_PATHS))
  /\ cpathsTable' = <<>>
  /\ i' = 0
  /\ pc' = "cpaths"
  /\ UNCHANGED <<variant, argv, installPrefix, utf8Prefix, L, argTable,
                 globalArg, setPathsDefined, pathsTable, packagePath,
                 packageCpath, scriptPath, bridgeRc, loadRc, runRc, stderr,
                 exitCode, trace>>
  /\ UNCHANGED convVars

\* One turn of: for (i = 0; LUA_CPATHS[i] != NULL; ++i) { ... }
PushCpath ==
  /\ pc = "cpaths"
  /\ i < Len(LUA_CPATHS)
  /\ cpathsTable' = (i + 1 :> LUA_CPATHS[i + 1]) @@ cpathsTable
  /\ i' = i + 1
  /\ UNCHANGED <<variant, argv, pc, installPrefix, utf8Prefix, L, argTable,
                 globalArg, setPathsDefined, pathsTable, packagePath,
                 packageCpath, scriptPath, bridgeRc, loadRc, runRc, stderr,
                 exitCode, trace>>
  /\ UNCHANGED convVars

\* Mutant of EndCpaths: main goes on to the payload without calling setPaths.
MutEndCpaths ==
  /\ pc = "cpaths"
  /\ ~(i < Len(LUA_CPATHS))
  /\ pc' = "load"
  /\ UNCHANGED <<variant, argv, i, installPrefix, utf8Prefix, L, argTable,
                 globalArg, setPathsDefined, pathsTable, cpathsTable,
                 packagePath, packageCpath, scriptPath, bridgeRc, loadRc,
                 runRc, stderr, exitCode, trace>>
  /\ UNCHANGED convVars

\* The loop over LUA_CPATHS ends
EndCpaths ==
  /\ pc = "cpaths"
  /\ ~(i < Len(LUA_CPATHS))
  /\ pc' = "lua_pcall setPaths"
  /\ UNCHANGED <<variant, argv, i, installPrefix, utf8Prefix, L, argTable,
                 globalArg, setPathsDefined, pathsTable, cpathsTable,
                 packagePath, packageCpath, scriptPath, bridgeRc, loadRc,
                 runRc, stderr, exitCode, trace>>
  /\ UNCHANGED convVars

\* The outcomes of lua_pcall(L, 3, 0, 0): the called value is nil (error),
\* setPaths runs to its end, or the runtime raises an error inside it
\* (out of memory) before the first or before the second assignment.
BridgeOutcomes ==
  IF setPathsDefined THEN {"ok", "err before path", "err before cpath"}
  ELSE {"err before path"}

\* if (lua_pcall(L, 3, 0, 0) != 0) { fprintf(... "Error setting paths" ...); }
\* and, in the file variant, scriptPath = utf8Prefix + "\\bin\\ldoc.lua"
CallSetPaths ==
  /\ pc = "lua_pcall setPaths"
  /\ \E outcome \in BridgeOutcomes :
       LET r == SetPathsResult(utf8Prefix, pathsTable, cpathsTable)
       IN  /\ bridgeRc' = IF outcome = "ok" THEN "ok" ELSE "err"
           /\ packagePath' = IF outcome = "err before path" THEN packagePath ELSE r.path
           /\ packageCpath' = IF outcome = "ok" THEN r.cpath ELSE packageCpath
           /\ IF outcome = "ok"
                THEN /\ Call("lua_pcall setPaths")
                     /\ UNCHANGED stderr
                ELSE /\ Calls(<<"lua_pcall setPaths", "lua_tostring">>)
                     /\ Say("Error setting paths: ")
  /\ scriptPath' = IF variant = "file"
                     THEN utf8Prefix \o <<BSL>> \o W_bin \o <<BSL>> \o W_ldoc_lua
                     ELSE scriptPath
  /\ pc' = "load"
  /\ UNCHANGED <<variant, argv, i, installPrefix, utf8Prefix, L, argTable,
                 globalArg, setPathsDefined, pathsTable, cpathsTable, loadRc,
                 runRc, exitCode>>
  /\ UNCHANGED convVars

\* luaL_loadfile(L, scriptPath) (first half of luaL_dofile), or
\* luaL_loadbuffer(L, ldoc_source_bytes, ldoc_source_size, "@ldoc.lua")
LoadPayload ==
  /\ pc = "load"
  /\ Call(LoadCall(variant))
  /\ \E rc \in {"ok", "err"} :
       /\ loadRc' = rc
       /\ pc' = IF rc = "ok" THEN "run" ELSE "report"
  /\ UNCHANGED <<variant, argv, i, installPrefix, utf8Prefix, L, argTable,
                 globalArg, setPathsDefined, pathsTable, cpathsTable,
                 packagePath, packageCpath, scriptPath, bridgeRc, runRc,
                 stderr, exitCode>>
  /\ UNCHANGED convVars

\* lua_pcall(L, 0, LUA_MULTRET, 0) on the compiled chunk
RunPayload ==
  /\ pc = "run"
  /\ Call("lua_pcall payload")
  /\ \E rc \in {"ok", "err"} : runRc' = rc
  /\ pc' = "report"
  /\ UNCHANGED <<variant, argv, i, installPrefix, utf8Prefix, L, argTable,
                 globalArg, setPathsDefined, pathsTable, cpathsTable,
                 packagePath, packageCpath, scriptPath, bridgeRc, loadRc,
                 stderr, exitCode>>
  /\ UNCHANGED convVars

\* The fprintf of the failed payload, if it failed, with the message
\* lua_tostring(L, -1) reads from the state
ReportPayload ==
  /\ pc = "report"
  /\ IF loadRc = "err" THEN Say(LoadDiag(variant)) /\ Call("lua_tostring")
     ELSE IF runRc = "err" THEN Say(RunDiag(variant)) /\ Call("lua_tostring")
     ELSE UNCHANGED <<stderr, trace>>
  /\ pc' = "lua_close"
  /\ UNCHANGED <<variant, argv, i, installPrefix, utf8Prefix, L, argTable,
                 globalArg, setPathsDefined, pathsTable, cpathsTable,
                 packagePath, packageCpath, scriptPath, bridgeRc, loadRc,
                 runRc, exitCode>>
  /\ UNCHANGED convVars

\* Mutant of CloseAndReturn: the file variant's error branch returns 1
\* without lua_close(L).
MutCloseAndReturn ==
  /\ pc = "lua_close"
  /\ IF variant = "file" /\ (loadRc = "err" \/ runRc = "err")
       THEN UNCHANGED <<L, trace>>
       ELSE L' = "closed" /\ Call("lua_close")
  /\ exitCode' = ExitStatus(variant, loadRc, runRc)
  /\ pc' = "done"
  /\ UNCHANGED <<variant, argv, i, installPrefix, utf8Prefix, argTable,
                 globalArg, setPathsDefined, pathsTable, cpathsTable,
                 packagePath, packageCpath, scriptPath, bridgeRc, loadRc,
                 runRc, stderr>>
  /\ UNCHANGED convVars

\* lua_close(L); return ...;
CloseAndReturn ==
  /\ pc = "lua_close"
  /\ Call("lua_close")
  /\ L' = "closed"
  /\ exitCode' = ExitStatus(variant, loadRc, runRc)
  /\ pc' = "done"
  /\ UNCHANGED <<variant, argv, i, installPrefix, utf8Prefix, argTable,
                 globalArg, setPathsDefined, pathsTable, cpathsTable,
                 packagePath, packageCpath, scriptPath, bridgeRc, loadRc,
                 runRc, stderr>>
  /\ UNCHANGED convVars

Init ==
  InitMain /\ ConvIdle

Next ==
  \/ ResolveExecutable
  \/ DeriveInstallPrefix
  \/ NewState
  \/ OpenLibs
  \/ PushArg
  \/ SetGlobalArg
  \/ DefineSetPaths
  \/ PushPath
  \/ EndPaths
  \/ PushCpath
  \/ EndCpaths
  \/ CallSetPaths
  \/ LoadPayload
  \/ RunPayload
  \/ ReportPayload
  \/ CloseAndReturn

Spec ==
  Init /\ [][Next]_vars

(***************************************************************************)
(* Properties of main.                                                     *)
(***************************************************************************)
Count(seq, x) ==
  Cardinality({k \in 1..Len(seq) : seq[k] = x})

InTrace(name) ==
  Count(trace, name) > 0

IsPrefix(s, t) ==
  Len(s) <= Len(t) /\ SubSeq(t, 1, Len(s)) = s

\* The payload was attempted and main has returned.
Returned ==
  pc = "done" /\ loadRc # "none"

PayloadFailed ==
  loadRc = "err" \/ runRc = "err"

\* GetModuleFileNameW was called and reported failure.
ResolveFailed ==
  InTrace("GetModuleFileNameW") /\ installPrefix = <<>>

\* C1: in both variants, once the payload was attempted, main returns 0
\* exactly when the payload compiled and ran without error, and non-zero when
\* it failed to compile or raised an error.
C1_ExitStatusReflectsPayload ==
  Returned => (exitCode = 0 <=> ~PayloadFailed)

\* C2: a state that luaL_newstate created is closed exactly once before main
\* returns, on every path (bridge failure, compile failure, runtime error
\* included), and main does nothing with the state after closing it.
C2_StateClosedExactlyOnce ==
  /\ Count(trace, "lua_close") <= 1
  /\ (pc = "done" /\ L # "none") => (L = "closed" /\ Count(trace, "lua_close") = 1)
  /\ L = "closed" => (pc = "done" /\ trace[Len(trace)] = "lua_close")
  /\ L = "closed" <=> InTrace("lua_close")

C2_Witness ==
  /\ pc = "done"
  /\ L = "closed"
  /\ bridgeRc = "err"
  /\ loadRc = "err"
  /\ variant = "file"

\* C3: when the executable's path cannot be resolved, main writes its
\* diagnostic, returns non-zero, and has neither created a Lua state nor
\* published arg nor called setPaths nor loaded the payload.
C3_ResolveFailureStopsEarly ==
  ResolveFailed =>
    /\ pc = "done"
    /\ exitCode > 0
    /\ stderr = <<"Could not find executable path.">>
    /\ trace = <<"GetModuleFileNameW">>
    /\ L = "none"
    /\ globalArg = <<"nil">>
    /\ ~setPathsDefined
    /\ bridgeRc = "none"
    /\ loadRc = "none"
    /\ runRc = "none"

C3_Witness ==
  ResolveFailed /\ pc = "done" /\ exitCode = 1

\* C4: a failed call of setPaths (setPaths being nil included) is reported
\* once and is not fatal: main goes on to load the payload, and returns 0 if
\* the payload succeeds.
C4_BridgeFailureIsSoft ==
  bridgeRc = "err" =>
    /\ Count(stderr, "Error setting paths: ") = 1
    /\ pc \in {"load", "run", "report", "lua_close", "done"}
    /\ pc = "done" => InTrace(LoadCall(variant))
    /\ (pc = "done" /\ ~PayloadFailed) => exitCode = 0

C4_Witness ==
  /\ pc = "done"
  /\ bridgeRc = "err"
  /\ ~setPathsDefined
  /\ loadRc = "ok"
  /\ runRc = "ok"
  /\ exitCode = 0

\* C5: in both variants the diagnostic of a payload that failed to compile
\* and the diagnostic of a payload that raised an error carry different
\* prefixes, and a payload that failed to compile is never run.
C5_DistinctDiagnostics ==
  /\ loadRc = "err" => runRc = "none"
  /\ (pc \in {"lua_close", "done"} /\ loadRc = "err") =>
       (Len(stderr) > 0 /\ stderr[Len(stderr)] # RunDiag(variant))
  /\ (pc \in {"lua_close", "done"} /\ runRc = "err") =>
       (Len(stderr) > 0 /\ stderr[Len(stderr)] # LoadDiag(variant))

\* C8: the global arg the payload sees holds argv[i] at index i for
\* 0 <= i < argc and has no other entry.
C8_ArgTableIsArgv ==
  InTrace("lua_setglobal arg") =>
    /\ DOMAIN globalArg = 0..(argc - 1)
    /\ \A k \in 0..(argc - 1) : globalArg[k] = argv[k + 1]

C8_Witness ==
  /\ pc = "report"
  /\ runRc = "ok"
  /\ argc = 3
  /\ globalArg[0] = "ldoc.exe"
  /\ globalArg[1] = "a"
  /\ globalArg[2] = "b"

\* The calls main makes up to and including the compilation of the payload.
Prelude ==
  <<"GetModuleFileNameW", "PathCchRemoveFileSpec", "luaL_newstate",
    "luaL_openlibs", "lua_setglobal arg", "luaL_dostring setPaths",
    "lua_pcall setPaths", LoadCall(variant)>>

NotMessageRead(call) ==
  call # "lua_tostring"

\* The calls made, the reads of an error message for fprintf left out.
Steps ==
  SelectSeq(trace, NotMessageRead)

\* C10: before the payload's first step the install root was derived, the
\* state created, the libraries opened, arg published and setPaths called
\* exactly once, in this order; the payload is loaded at most once, and
\* after it returned or failed main only closes the state (having read the
\* error message it prints).
C10_OrderOfSteps ==
  /\ \/ IsPrefix(Steps, Prelude \o <<"lua_pcall payload", "lua_close">>)
     \/ IsPrefix(Steps, Prelude \o <<"lua_close">>)
  /\ Count(trace, LoadCall(variant)) <= 1
  /\ InTrace("lua_pcall payload") =>
       /\ Count(trace, "lua_pcall setPaths") = 1
       /\ bridgeRc # "none"
       /\ InTrace("lua_setglobal arg")
       /\ L # "none"
  /\ InTrace("lua_close") => loadRc # "none"

C10_Witness ==
  /\ pc = "report"
  /\ runRc = "err"
  /\ bridgeRc = "err"

(***************************************************************************)
(* setPaths on its own: main up to and including the call of setPaths,     *)
(* and the call made with other base directories and template lists.       *)
(***************************************************************************)
PathChars ==
  {BSL, "a"}

RootStrings ==
  StringsUpTo(PathChars, MaxRootLen)

TemplateStrings ==
  StringsUpTo(PathChars, MaxTemplateLen)

JoinRoots ==
  { <<"r">>, <<"r", BSL>> }

JoinTemplates ==
  { <<"x">>, <<BSL, "y", BSL>>, <<"z", ";">> }

\* The state of main right before lua_pcall(L, 3, 0, 0), the three
\* arguments being any base directory and any two template lists.
InitBeforeCall ==
  /\ variant \in {"file", "embedded"}
  /\ argv = <<"ldoc.exe">>
  /\ pc = "lua_pcall setPaths"
  /\ \/ /\ utf8Prefix \in RootStrings
        /\ \E t \in TemplateStrings : pathsTable = <<t>>
        /\ \E t \in TemplateStrings : cpathsTable = <<t>>
     \/ /\ utf8Prefix \in JoinRoots
        /\ pathsTable \in ListsUpTo(JoinTemplates, MaxPaths) \ {<<>>}
        /\ cpathsTable \in ListsUpTo(JoinTemplates, MaxCpaths) \ {<<>>}
  /\ i = Len(cpathsTable)
  /\ installPrefix = utf8Prefix
  /\ L = "open"
  /\ argTable = (0 :> "ldoc.exe")
  /\ globalArg = (0 :> "ldoc.exe")
  /\ setPathsDefined = TRUE
  /\ packagePath = <<"default">>
  /\ packageCpath = <<"default">>
  /\ scriptPath = <<>>
  /\ bridgeRc = "none"
  /\ loadRc = "none"
  /\ runRc = "none"
  /\ stderr = <<>>
  /\ exitCode = -1
  /\ trace = <<"GetModuleFileNameW", "PathCchRemoveFileSpec", "luaL_newstate",
               "luaL_openlibs", "lua_setglobal arg", "luaL_dostring setPaths">>

InitPaths ==
  (InitMain \/ InitBeforeCall) /\ ConvIdle

NextPaths ==
  \/ ResolveExecutable
  \/ DeriveInstallPrefix
  \/ NewState
  \/ OpenLibs
  \/ PushArg
  \/ SetGlobalArg
  \/ DefineSetPaths
  \/ PushPath
  \/ EndPaths
  \/ PushCpath
  \/ EndCpaths
  \/ CallSetPaths

SpecPaths ==
  InitPaths /\ [][NextPaths]_vars

(***************************************************************************)
(* Properties of setPaths.                                                 *)
(***************************************************************************)

\* s without its longest suffix of backslashes.
TrimRight(s) ==
  LET n == CHOOSE j \in 0..Len(s) :
             /\ \A m \in (Len(s) - j + 1)..Len(s) : s[m] = BSL
             /\ j < Len(s) => s[Len(s) - j] # BSL
  IN  SubSeq(s, 1, Len(s) - n)

\* s without its longest prefix of backslashes.
TrimLeft(s) ==
  LET n == CHOOSE j \in 0..Len(s) :
             /\ \A m \in 1..j : s[m] = BSL
             /\ j < Len(s) => s[j + 1] # BSL
  IN  SubSeq(s, n + 1, Len(s))

\* What the claims say the entry for template t under root r is.
ExpectedEntry(r, t) ==
  TrimRight(r) \o <<BSL>> \o TrimRight(TrimLeft(t))

ExpectedEntries(r, list) ==
  [k \in 1..Len(list) |-> ExpectedEntry(r, list[k])]

RECURSIVE SumLen(_, _)
SumLen(entries, k) ==
  IF k = 0 THEN 0 ELSE Len(entries[k]) + SumLen(entries, k - 1)

\* Where the k-th of the entries starts in their join.
Offset(entries, k) ==
  SumLen(entries, k - 1) + k

\* The piece of str where the k-th of the entries is expected.
Piece(str, entries, k) ==
  SubSeq(str, Offset(entries, k), Offset(entries, k) + Len(entries[k]) - 1)

\* The position of the j-th ';' of str (0 for j = 0, past the end when str
\* has fewer).
SepPos(str, j) ==
  LET seps == {k \in 1..Len(str) : str[k] = ";"}
  IN  IF j = 0 THEN 0
      ELSE IF j > Cardinality(seps) THEN Len(str) + 1
      ELSE CHOOSE k \in seps : Cardinality({m \in seps : m < k}) = j - 1

\* The pieces of str between its ';' characters.
Split(str) ==
  [j \in 1..(Count(str, ";") + 1) |->
     SubSeq(str, SepPos(str, j - 1) + 1, SepPos(str, j) - 1)]

\* Exactly one backslash joins the cleaned root and the cleaned template
\* in entry e built for root r.
OneSeparatorAtJunction(e, r) ==
  LET j == Len(TrimRight(r)) + 1
  IN  /\ j <= Len(e)
      /\ e[j] = BSL
      /\ j > 1 => e[j - 1] # BSL
      /\ j < Len(e) => e[j + 1] # BSL

EntriesAsClaimed(str, r, list) ==
  LET want == ExpectedEntries(r, list)
  IN  \A k \in 1..Len(list) :
        /\ Piece(str, want, k) = ExpectedEntry(r, list[k])
        /\ OneSeparatorAtJunction(Piece(str, want, k), r)

\* C6: for every base directory and template, with any number of leading
\* and trailing backslashes, the entry setPaths builds is the base without
\* its trailing backslashes, one backslash, and the template without its
\* leading and trailing backslashes: exactly one separator at the junction.
C6_EntryHasOneSeparator ==
  bridgeRc = "ok" =>
    /\ EntriesAsClaimed(packagePath, utf8Prefix, pathsTable)
    /\ EntriesAsClaimed(packageCpath, utf8Prefix, cpathsTable)

C6_Witness ==
  /\ bridgeRc = "ok"
  /\ utf8Prefix = <<"a", BSL, BSL>>
  /\ pathsTable = << <<BSL, BSL, "a">> >>
  /\ cpathsTable = << <<BSL, "a", BSL>> >>
  /\ packagePath = <<"a", BSL, "a">>
  /\ packageCpath = <<"a", BSL, "a">>

\* str is the entries in their order with one ';' between neighbours.
JoinedInOrder(str, entries) ==
  LET n == Len(entries)
  IN  /\ Len(str) = SumLen(entries, n) + (n - 1)
      /\ \A k \in 1..n : Piece(str, entries, k) = entries[k]
      /\ \A k \in 1..(n - 1) : str[Offset(entries, k + 1) - 1] = ";"
      /\ (\A k \in 1..n : Count(entries[k], ";") = 0) =>
           /\ Count(str, ";") = n - 1
           /\ Split(str) = entries

Range(f) ==
  {f[k] : k \in DOMAIN f}

\* C7: package.path is the N entries in the order of the template list
\* with N-1 ';' between them, and package.cpath likewise for its own list;
\* main's lists give 8 entries in package.path and 4 in package.cpath, in
\* declaration order, none of them in both.
C7_JoinedInOrder ==
  bridgeRc = "ok" =>
    /\ Len(pathsTable) >= 1 =>
         JoinedInOrder(packagePath, ExpectedEntries(utf8Prefix, pathsTable))
    /\ Len(cpathsTable) >= 1 =>
         JoinedInOrder(packageCpath, ExpectedEntries(utf8Prefix, cpathsTable))
    /\ (pathsTable = LUA_PATHS /\ cpathsTable = LUA_CPATHS) =>
         LET ps == Split(packagePath)
             cs == Split(packageCpath)
         IN  /\ Len(ps) = 8
             /\ Len(cs) = 4
             /\ \A k \in 1..8 : ps[k] = TrimRight(utf8Prefix) \o <<BSL>> \o LUA_PATHS[k]
             /\ \A k \in 1..4 : cs[k] = TrimRight(utf8Prefix) \o <<BSL>> \o LUA_CPATHS[k]
             /\ Range(ps) \cap Range(cs) = {}

C7_Witness ==
  /\ bridgeRc = "ok"
  /\ trace[Len(trace)] = "lua_pcall setPaths"
  /\ trace[1] = "GetModuleFileNameW"
  /\ pathsTable = LUA_PATHS
  /\ cpathsTable = LUA_CPATHS
  /\ utf8Prefix = <<"C", ":", BSL>>
  /\ Count(packagePath, ";") = 7
  /\ Count(packageCpath, ";") = 3

(***************************************************************************)
(* cmake/convert_lua_to_hex.cmake: from ldoc.lua to ldoc_source.h.         *)
(* A byte is its value, 0..255.                                            *)
(***************************************************************************)
HASH ==
  35

BANG ==
  33

NEWLINE ==
  10

\* The bytes the source text is made of here: '#', '!', newline and 'x'.
ContentBytes ==
  {HASH, BANG, NEWLINE, 120}

HexDigits ==
  <<"0", "1", "2", "3", "4", "5", "6", "7", "8", "9", "a", "b", "c", "d", "e", "f">>

IsHexDigit(c) ==
  \E d \in 1..16 : HexDigits[d] = c

HexValue(c) ==
  (CHOOSE d \in 1..16 : HexDigits[d] = c) - 1

\* The first position >= k of s that holds a newline (0 when none does).
RECURSIVE FirstNewline(_, _)
FirstNewline(s, k) ==
  IF k > Len(s) THEN 0
  ELSE IF s[k] = NEWLINE THEN k
  ELSE FirstNewline(s, k + 1)

\* One search of "^#![^\n]*\n" in the text that starts at base: the
\* position of the newline that ends the match, or 0.  "^" holds at base
\* only, and "[^\n]*" cannot pass a newline.
FindShebang(s, base) ==
  IF base + 1 <= Len(s) /\ s[base] = HASH /\ s[base + 1] = BANG
    THEN FirstNewline(s, base + 2)
    ELSE 0

\* string(REGEX REPLACE "^#![^\n]*\n" "" ...): the expression is searched
\* again in what follows each match.  With policy CMP0186 OLD "^" matches
\* at the start of every such search, with NEW at the start of the input only.
RECURSIVE RegexReplaceShebang(_, _, _)
RegexReplaceShebang(s, base, pol) ==
  LET e == FindShebang(s, base)
  IN  IF e = 0 \/ (pol = "NEW" /\ base > 1)
        THEN SubSeq(s, base, Len(s))
        ELSE RegexReplaceShebang(s, e + 1, pol)

\* file(WRITE tmp) then file(READ tmp RAW_HEX HEX): two lower-case hex
\* digits for each byte.
RECURSIVE ToHex(_, _)
ToHex(bytes, k) ==
  IF k > Len(bytes) THEN <<>>
  ELSE <<HexDigits[(bytes[k] \div 16) + 1], HexDigits[(bytes[k] % 16) + 1]>>
         \o ToHex(bytes, k + 1)

\* string(REGEX REPLACE "([0-9a-f][0-9a-f])" "0x\\1," ...): every
\* non-overlapping pair of hex digits, left to right; other text is kept.
RECURSIVE FormatHex(_, _)
FormatHex(hex, base) ==
  IF base > Len(hex) THEN <<>>
  ELSE IF base + 1 <= Len(hex) /\ IsHexDigit(hex[base]) /\ IsHexDigit(hex[base + 1])
    THEN <<"0", "x", hex[base], hex[base + 1], ",">> \o FormatHex(hex, base + 2)
    ELSE <<hex[base]>> \o FormatHex(hex, base + 1)

\* The values of the initializer list "{\n${FORMATTED_HEX}\n0x00\n}" as the
\* C compiler reads it: 0xHH constants, separated by commas and white space.
RECURSIVE ParseInitializer(_, _)
ParseInitializer(text, k) ==
  IF k > Len(text) THEN <<>>
  ELSE IF text[k] = "0" /\ k + 3 <= Len(text) /\ text[k + 1] = "x"
    THEN <<16 * HexValue(text[k + 2]) + HexValue(text[k + 3])>>
           \o ParseInitializer(text, k + 4)
    ELSE ParseInitializer(text, k + 1)

InitConv ==
  /\ CONTENT \in StringsUpTo(ContentBytes, MaxContentLen)
  /\ policy \in {"OLD", "NEW"}
  /\ CLEAN_CONTENT = <<>>
  /\ RAW_HEX = <<>>
  /\ FORMATTED_HEX = <<>>
  /\ ldoc_source_bytes = <<>>
  /\ ldoc_source_size = 0
  /\ cpc = "strip"

\* No launcher runs while the header is generated.
MainIdle ==
  /\ variant = "embedded"
  /\ argv = <<>>
  /\ pc = "idle"
  /\ i = 0
  /\ installPrefix = <<>>
  /\ utf8Prefix = <<>>
  /\ L = "none"
  /\ argTable = <<>>
  /\ globalArg = <<"nil">>
  /\ setPathsDefined = FALSE
  /\ pathsTable = <<>>
  /\ cpathsTable = <<>>
  /\ packagePath = <<"default">>
  /\ packageCpath = <<"default">>
  /\ scriptPath = <<>>
  /\ bridgeRc = "none"
  /\ loadRc = "none"
  /\ runRc = "none"
  /\ stderr = <<>>
  /\ exitCode = -1
  /\ trace = <<>>

\* string(REGEX REPLACE "^#![^\n]*\n" "" CLEAN_CONTENT "${CONTENT}")
StripShebang ==
  /\ cpc = "strip"
  /\ CLEAN_CONTENT' = RegexReplaceShebang(CONTENT, 1, policy)
  /\ cpc' = "hex"
  /\ UNCHANGED <<CONTENT, policy, RAW_HEX, FORMATTED_HEX, ldoc_source_bytes,
                 ldoc_source_size>>
  /\ UNCHANGED mainVars

\* file(WRITE ...tmp) file(READ ...tmp RAW_HEX HEX) file(REMOVE ...tmp)
ConvertToHex ==
  /\ cpc = "hex"
  /\ RAW_HEX' = ToHex(CLEAN_CONTENT, 1)
  /\ cpc' = "format"
  /\ UNCHANGED <<CONTENT, policy, CLEAN_CONTENT, FORMATTED_HEX,
                 ldoc_source_bytes, ldoc_source_size>>
  /\ UNCHANGED mainVars

\* string(REGEX REPLACE "([0-9a-f][0-9a-f])" "0x\\1," FORMATTED_HEX ...)
FormatHexPairs ==
  /\ cpc = "format"
  /\ FORMATTED_HEX' = FormatHex(RAW_HEX, 1)
  /\ cpc' = "write"
  /\ UNCHANGED <<CONTENT, policy, CLEAN_CONTENT, RAW_HEX, ldoc_source_bytes,
                 ldoc_source_size>>
  /\ UNCHANGED mainVars

\* file(WRITE "${OUTPUT_FILE}" ...): the array with its 0x00 terminator and
\* ldoc_source_size = sizeof(ldoc_source_bytes) - 1
WriteHeader ==
  /\ cpc = "write"
  /\ ldoc_source_bytes' =
       ParseInitializer(<<"\n">> \o FORMATTED_HEX \o <<"\n", "0", "x", "0", "0", "\n">>, 1)
  /\ ldoc_source_size' = Len(ldoc_source_bytes') - 1
  /\ cpc' = "done"
  /\ UNCHANGED <<CONTENT, policy, CLEAN_CONTENT, RAW_HEX, FORMATTED_HEX>>
  /\ UNCHANGED mainVars

NextConv ==
  \/ StripShebang
  \/ ConvertToHex
  \/ FormatHexPairs
  \/ WriteHeader

InitBuild ==
  InitConv /\ MainIdle

SpecConv ==
  InitBuild /\ [][NextConv]_vars

(***************************************************************************)
(* Properties of the conversion.                                           *)
(***************************************************************************)

\* s begins with an interpreter-directive line.
BeginsWithDirective(s) ==
  Len(s) >= 2 /\ s[1] = HASH /\ s[2] = BANG

\* s without its first line, if that line is an interpreter directive.
WithoutDirectiveLine(s) ==
  IF BeginsWithDirective(s)
    THEN IF FirstNewline(s, 1) = 0 THEN <<>>
         ELSE SubSeq(s, FirstNewline(s, 1) + 1, Len(s))
    ELSE s

\* The payload the launcher hands to luaL_loadbuffer.
EmittedPayload ==
  SubSeq(ldoc_source_bytes, 1, ldoc_source_size)

\* C9: the emitted array is the source without its leading "#!" line (and the
\* source itself when it has none), the declared length is the number of
\* payload bytes, the terminating 0x00 not counted, and the payload never
\* begins with a "#!" line, also when the source is such a line without a
\* newline at its end.
C9_PayloadWithoutDirective ==
  cpc = "done" =>
    /\ EmittedPayload = WithoutDirectiveLine(CONTENT)
    /\ ldoc_source_size = Len(ldoc_source_bytes) - 1
    /\ ldoc_source_bytes[Len(ldoc_source_bytes)] = 0
    /\ ~BeginsWithDirective(EmittedPayload)

====
